---------------------------- MODULE Spec2Model ----------------------------
(***************************************************************************)
(* State-machine model of the xrage-format converters:                     *)
(*   "v2a"    src/vti2pqtv2a.cc          .vti -> one parquet file, one row *)
(*                                        group per timestep               *)
(*   "v2b"    src/vti2pqtv2b.cc:1-248    .vti -> split parquet files       *)
(*   "repack" src/vti2pqtv2b.cc:250-438  .parquet -> re-chunked files      *)
(*   "meta"   src/unnamed/part_000       .vti -> one parquet file per      *)
(*                                        source, with key/value metadata  *)
(* Strings are sequences of one-character strings.  A float or double is   *)
(* the dyadic rational m * 2^e, kept in lowest terms (m odd, or m = e = 0).*)
(***************************************************************************)
EXTENDS Integers, Sequences, FiniteSets, TLC

(***************************************************************************)
(* Bounds of the model.                                                    *)
(***************************************************************************)
\* Longest directory listing that is enumerated.
MaxFiles == 3
\* Largest row-count ceiling that is tried (the code's literals, scaled).
MaxCeiling == 3
\* The longest sequence of calls made on one ParquetWriter by WriterSpec.
MaxCalls == 3

(***************************************************************************)
(* Program constants.                                                      *)
(***************************************************************************)
\* roundf(v * 1000000) / 1000000
QuantScale == 1000000
\* f.substr(f.size() - 4 - 5, 5): width of the timestep field of a name
KeyWidth == 5
\* f.size() - 4: length of ".vti"
SuffixLen == 4
\* number of significand bits of a 32-bit float
FloatBits == 24
\* std::to_string(double) prints "%f": six digits after the point
ToStringDigits == 6

(***************************************************************************)
(* std::string                                                             *)
(***************************************************************************)
Min(a, b) == IF a <= b THEN a ELSE b

\* The string literals of the sources.
DotVti == <<".", "v", "t", "i">>
DotVtu == <<".", "v", "t", "u">>
DotParquet == <<".", "p", "a", "r", "q", "u", "e", "t">>

StringEndWith(str, suffix) ==
  LET lenstr == Len(str)
      lensuffix == Len(suffix)
  IN  IF lensuffix > lenstr
        THEN FALSE
        ELSE SubSeq(str, lenstr - lensuffix + 1, lenstr) = suffix

\* std::string::substr(pos, count).  pos and count are size_t: a negative
\* number here stands for the wrapped value 2^64 + pos, larger than any
\* length.  pos > size() throws std::out_of_range.
OutOfRange == "std::out_of_range"

Substr(s, pos, count) ==
  IF pos < 0 \/ pos > Len(s)
    THEN OutOfRange
    ELSE IF count < 0
           THEN SubSeq(s, pos + 1, Len(s))
           ELSE SubSeq(s, pos + 1, Min(pos + count, Len(s)))

Digits == <<"0", "1", "2", "3", "4", "5", "6", "7", "8", "9">>

IsDigit(c) == \E d \in 1..10 : Digits[d] = c

DigitVal(c) == (CHOOSE d \in 1..10 : Digits[d] = c) - 1

RECURSIVE AtoiDigits(_, _)
AtoiDigits(s, acc) ==
  IF s = <<>> \/ ~IsDigit(Head(s))
    THEN acc
    ELSE AtoiDigits(Tail(s), 10 * acc + DigitVal(Head(s)))

RECURSIVE SkipSpace(_)
SkipSpace(s) ==
  IF s # <<>> /\ Head(s) = " " THEN SkipSpace(Tail(s)) ELSE s

\* atoi: leading blanks, an optional sign, then digits up to the first
\* character that is not a digit.
Atoi(str) ==
  LET s == SkipSpace(str)
  IN  IF s # <<>> /\ Head(s) = "-" THEN 0 - AtoiDigits(Tail(s), 0)
      ELSE IF s # <<>> /\ Head(s) = "+" THEN AtoiDigits(Tail(s), 0)
      ELSE AtoiDigits(s, 0)

RECURSIVE NatToString(_)
NatToString(n) ==
  IF n < 10
    THEN <<Digits[n + 1]>>
    ELSE NatToString(n \div 10) \o <<Digits[(n % 10) + 1]>>

\* std::to_string(int)
IntToString(n) == IF n < 0 THEN <<"-">> \o NatToString(0 - n) ELSE NatToString(n)

(***************************************************************************)
(* Floating point.  [m, e] is m * 2^e.                                     *)
(***************************************************************************)
Abs(x) == IF x < 0 THEN 0 - x ELSE x

Sign(x) == IF x < 0 THEN 0 - 1 ELSE 1

RECURSIVE Canon(_, _)
Canon(m, e) ==
  IF m = 0 THEN [m |-> 0, e |-> 0]
  ELSE IF m % 2 = 0 THEN Canon(m \div 2, e + 1)
  ELSE [m |-> m, e |-> e]

\* The significand scaled into [2^(FloatBits-1), 2^FloatBits).
RECURSIVE Normal(_, _)
Normal(m, e) ==
  IF m < 2 ^ (FloatBits - 1) THEN Normal(2 * m, e - 1) ELSE [m |-> m, e |-> e]

\* v * 1000000 in float arithmetic (round to nearest, ties to even).
\* 1000000 = 15625 * 2^6; the 38-bit product M * 15625 is formed in two
\* halves so that no intermediate value exceeds 31 bits.
FloatMulScale(v) ==
  IF v.m = 0 THEN v
  ELSE
    LET n    == Normal(Abs(v.m), v.e)
        odd  == QuantScale \div 64
        a    == n.m \div 4096
        b    == n.m % 4096
        T    == a * odd + ((b * odd) \div 4096)
        lo   == (b * odd) % 4096
        s    == IF T < 2 ^ (FloatBits + 1) THEN 1 ELSE 2
        Q    == T \div (2 ^ s)
        R    == (T % (2 ^ s)) * 4096 + lo
        half == (2 ^ s) * 2048
        up   == R > half \/ (R = half /\ Q % 2 = 1)
        Qr   == IF up THEN Q + 1 ELSE Q
    IN  Canon(Sign(v.m) * Qr, n.e + 6 + 12 + s)

\* roundf: to the nearest integer, halves away from zero.
Roundf(v) ==
  IF v.e >= 0 THEN v
  ELSE IF 0 - v.e > FloatBits THEN [m |-> 0, e |-> 0]
  ELSE
    LET d  == 2 ^ (0 - v.e)
        ip == Abs(v.m) \div d
        r  == Abs(v.m) % d
        k  == IF 2 * r >= d THEN ip + 1 ELSE ip
    IN  Canon(Sign(v.m) * k, 0)

\* Long division q * 2^(-t) ~ num / den, one quotient bit per step.
RECURSIVE DivBits(_, _, _, _)
DivBits(q, r, t, den) ==
  IF q >= 2 ^ (FloatBits - 1)
    THEN [q |-> q, r |-> r, t |-> t]
    ELSE IF 2 * r >= den
           THEN DivBits(2 * q + 1, 2 * r - den, t + 1, den)
           ELSE DivBits(2 * q, 2 * r, t + 1, den)

\* v / 1000000 in float arithmetic (round to nearest; den is odd, so no ties).
FloatDivScale(v) ==
  IF v.m = 0 THEN v
  ELSE
    LET odd == QuantScale \div 64
        n   == Normal(Abs(v.m), v.e)
        d   == DivBits(n.m \div odd, n.m % odd, 0, odd)
        Qr  == IF 2 * d.r > odd THEN d.q + 1 ELSE d.q
    IN  Canon(Sign(v.m) * Qr, n.e - 6 - d.t)

\* roundf(v * 1000000) / 1000000
Quantize(v) == FloatDivScale(Roundf(FloatMulScale(v)))

\* std::to_string(double): "%f", the exact value rounded to six digits after
\* the point, ties to even.  Defined for the small dyadic values the model
\* uses (|m| * 10^6 stays below 2^31).
RECURSIVE PadDigits(_, _)
PadDigits(s, width) == IF Len(s) >= width THEN s ELSE PadDigits(<<"0">> \o s, width)

DoubleToString(v) ==
  LET scale  == 10 ^ ToStringDigits
      d      == IF v.e >= 0 THEN 1 ELSE 2 ^ (0 - v.e)
      num    == IF v.e >= 0 THEN Abs(v.m) * (2 ^ v.e) * scale ELSE Abs(v.m) * scale
      ip     == num \div d
      r      == num % d
      up     == 2 * r > d \/ (2 * r = d /\ ip % 2 = 1)
      scaled == IF up THEN ip + 1 ELSE ip
  IN  (IF v.m < 0 THEN <<"-">> ELSE <<>>)
        \o NatToString(scaled \div scale) \o <<".">>
        \o PadDigits(NatToString(scaled % scale), ToStringDigits)

(***************************************************************************)
(* The inputs: a catalogue of source files and the directory listings made *)
(* of them.                                                                *)
(***************************************************************************)
F(m, e) == [m |-> m, e |-> e]

\* Field values the snapshots hold: 0.5, 2^-20, 2^-24, 1.25, 2.5e-6f, -0.7f.
FloatSamples ==
  << F(1, 0 - 1), F(1, 0 - 20), F(1, 0 - 24), F(5, 0 - 2),
     F(2748779, 0 - 40), F(0 - 11744051, 0 - 24), F(1025, 0 - 7) >>

AllArrays == {"prs", "tev", "v02", "v03"}

\* The cell arrays xrage::Iterator reads, in the order of the schema.
CellColumns ==
  <<"rho", "prs", "tev", "xdt", "ydt", "zdt", "snd", "grd", "mat", "v02", "v03">>
CellArrays == {CellColumns[c] : c \in DOMAIN CellColumns}

\* stem: the file name without its suffix; n: number of points (rows);
\* seed: selects the field values; cycle: the values of the field-data array
\* cycle_index (<<>>: the snapshot has no such array);
\* row0, ts: first rowid and timestep column of the rows when the file is a
\* parquet input of the repack tool.
Catalog ==
  << [stem |-> <<"a", "_", "0", "0", "0", "0", "1">>, d_type |-> "DT_REG",
      n |-> 0, seed |-> 0, arrays |-> AllArrays \cup CellArrays, cycle |-> <<42>>,
      extent |-> <<0, 0 - 1, 0, 0 - 1, 0, 0 - 1>>,
      origin |-> <<F(0, 0), F(3, 0 - 1), F(0 - 2, 0)>>,
      spacing |-> <<F(1, 0 - 2), F(1, 0 - 2), F(1, 0 - 2)>>,
      row0 |-> 0, ts |-> 1],
     [stem |-> <<"a", "_", "0", "0", "0", "0", "2">>, d_type |-> "DT_REG",
      n |-> 7, seed |-> 1, arrays |-> AllArrays \cup CellArrays, cycle |-> <<0 - 3, 9>>,
      extent |-> <<0, 6, 0, 0, 0, 0>>,
      origin |-> <<F(0, 0), F(0, 0), F(0, 0)>>,
      spacing |-> <<F(1, 0 - 20), F(1, 0 - 21), F(3, 0 - 21)>>,
      row0 |-> 0, ts |-> 2],
     [stem |-> <<"a", "-", "0", "0", "0", "0", "2">>, d_type |-> "DT_REG",
      n |-> 1, seed |-> 4, arrays |-> AllArrays \cup CellArrays, cycle |-> <<>>,
      extent |-> <<5, 5, 0, 0, 0, 0>>,
      origin |-> <<F(1, 0), F(1, 0), F(1, 0)>>,
      spacing |-> <<F(1, 0), F(1, 0), F(1, 0)>>,
      row0 |-> 25, ts |-> 2],
     [stem |-> <<"a", "_", "0", "0", "0", "0", "7">>, d_type |-> "DT_REG",
      n |-> 0, seed |-> 2, arrays |-> AllArrays \cup CellArrays, cycle |-> <<7>>,
      extent |-> <<0, 0 - 1, 0, 0 - 1, 0, 0 - 1>>,
      origin |-> <<F(0, 0), F(0, 0), F(0, 0)>>,
      spacing |-> <<F(1, 0), F(1, 0), F(1, 0)>>,
      row0 |-> 0, ts |-> 7],
     [stem |-> <<"a", "_", "0", "0", "0", "1", "5">>, d_type |-> "DT_REG",
      n |-> 3, seed |-> 3, arrays |-> AllArrays \cup CellArrays, cycle |-> <<15, 16>>,
      extent |-> <<0 - 1, 1, 10, 10, 0, 0>>,
      origin |-> <<F(0 - 1, 0 - 21), F(5, 0 - 1), F(0 - 7, 0 - 3)>>,
      spacing |-> <<F(1, 1), F(1, 0 - 1), F(1, 0 - 3)>>,
      row0 |-> 4, ts |-> 15],
     [stem |-> <<"l", "_", "0", "0", "0", "0", "3">>, d_type |-> "DT_LNK",
      n |-> 2, seed |-> 5, arrays |-> AllArrays, cycle |-> <<3>>,
      extent |-> <<0, 1, 0, 0, 0, 0>>,
      origin |-> <<F(0, 0), F(0, 0), F(0, 0)>>,
      spacing |-> <<F(1, 0), F(1, 0), F(1, 0)>>,
      row0 |-> 0, ts |-> 3],
     [stem |-> <<"b", "_", "0", "0", "0", "0", "4">>, d_type |-> "DT_REG",
      n |-> 2, seed |-> 6, arrays |-> CellArrays \ {"v02"}, cycle |-> <<4>>,
      extent |-> <<0, 1, 0, 0, 0, 0>>,
      origin |-> <<F(0, 0), F(0, 0), F(0, 0)>>,
      spacing |-> <<F(1, 0), F(1, 0), F(1, 0)>>,
      row0 |-> 0, ts |-> 4] >>

Programs == {"v2a", "v2b", "repack", "meta", "vtu"}

\* The suffix ProcessDir selects.
Suffix(p) == IF p = "repack" THEN DotParquet ELSE IF p = "vtu" THEN DotVtu ELSE DotVti

\* argv[1] and argv[2].
InDir == <<"i">>
OutDir == <<"o">>

\* The orders in which readdir may return up to MaxFiles distinct files.
Listings ==
  UNION { { s \in [1..k -> 1..Len(Catalog)] :
              \A a, b \in 1..k : a # b => s[a] # s[b] } : k \in 0..MaxFiles }

DirOf(s, p) ==
  [j \in 1..Len(s) |->
     [name |-> Catalog[s[j]].stem \o Suffix(p), first |-> 0, created |-> FALSE]
       @@ Catalog[s[j]]]

\* The point data of a snapshot at index j (0-based).
V02(f, j) == FloatSamples[((f.seed + j) % Len(FloatSamples)) + 1]
V03(f, j) == FloatSamples[((f.seed + 2 * j + 3) % Len(FloatSamples)) + 1]

\* The cell data of an unstructured grid: column c at index j (0-based).
CellValue(f, c, j) ==
  IF CellColumns[c] = "v02" THEN V02(f, j)
  ELSE IF CellColumns[c] = "v03" THEN V03(f, j)
  ELSE FloatSamples[((f.seed + c + j) % Len(FloatSamples)) + 1]

\* The rows a parquet input decodes to.
InputRow(f, j) ==
  [timestep |-> f.ts, rowid |-> f.row0 + f.first + j,
   v02 |-> V02(f, f.first + j), v03 |-> V03(f, f.first + j)]

(***************************************************************************)
(* State.                                                                  *)
(***************************************************************************)
VARIABLES
  prog,        \* the program that runs
  ceiling,     \* row-count ceiling of Rewrite0 (0: the program has none)
  dir,         \* the entries of argv[1], in the order readdir returns them
  pc,          \* control point of the run
  entry,       \* number of entries readdir has returned
  tmp2,        \* v2a: the output path
  work_items,  \* v2a: std::map<int, std::string>
  kv,          \* v2a: position of the range-for in work_items (1-based)
  fr,          \* locals of Rewrite and Rewrite0
  it,          \* the Iterator (or the StreamReader of the repack tool)
  writer,      \* the ParquetWriter
  sink,        \* the output files, in the order they were created
  calls,       \* history: the calls made on ParquetWriter objects
  rewrites     \* history: the calls of Rewrite

vars == <<prog, ceiling, dir, pc, entry, tmp2, work_items, kv, fr, it, writer,
          sink, calls, rewrites>>

NoFrame == [from |-> <<>>, to |-> <<>>, timestep |-> 0, i |-> 0, rowid |-> 0, n |-> 0]
NoIt == [n_ |-> 0, i_ |-> 0, src |-> 0]
NoWriter == [writer_ |-> "nullptr", rowid_ |-> 0, pending_rgflush_ |-> FALSE, out |-> 0]
\* No key/value metadata: the empty map.
NoKV == <<>>

Init ==
  /\ prog \in Programs
  /\ ceiling \in (IF prog \in {"v2b", "repack"} THEN 1..MaxCeiling ELSE {0})
  /\ dir \in {DirOf(s, prog) : s \in Listings}
  /\ pc = "opendir"
  /\ entry = 0
  /\ tmp2 = OutDir
  /\ work_items = <<>>
  /\ kv = 1
  /\ fr = NoFrame
  /\ it = NoIt
  /\ writer = NoWriter
  /\ sink = <<>>
  /\ calls = <<>>
  /\ rewrites = <<>>

(***************************************************************************)
(* Iterator                                                                *)
(***************************************************************************)
Valid_short(i) == i.i_ >= 0 /\ i.i_ < i.n_ - 1

Valid_incl(i) == i.i_ >= 0 /\ i.i_ <= i.n_

\* bool Valid() const { return i_ >= 0 && i_ < n_; }
Valid(i) == i.i_ >= 0 /\ i.i_ < i.n_

ItNext_skip(i) == [i EXCEPT !.i_ = @ + 2]

\* void Next() { i_++; }
ItNext(i) == [i EXCEPT !.i_ = @ + 1]

IteratorOk_any(f, names) == TRUE

\* Iterator::Iterator reads the arrays through
\* FastDownCast(GetAbstractArray(name))->GetPointer(0): for an array the
\* snapshot does not hold this dereferences a null pointer.
IteratorOk(f, names) == names \subseteq f.arrays

NewIterator(f, d) == [n_ |-> f.n, i_ |-> 0, src |-> d]

(***************************************************************************)
(* The sink: parquet::StreamWriter over an arrow FileOutputStream.         *)
(***************************************************************************)
EndRowGroup == [op |-> "EndRowGroup"]
EndRow(row) == [op |-> "EndRow", row |-> row]

\* FileOutputStream::Open(path) followed by ParquetFileWriter::Open.
NewOutput(path, meta, d) ==
  [name |-> path, kv |-> meta, events |-> <<>>, open |-> TRUE, src |-> d]

Emit(snk, o, ev) == [snk EXCEPT ![o].events = Append(@, ev)]

CloseOutput_noop(snk, o) == snk

\* delete writer_: the StreamWriter is destroyed and the file is closed.
CloseOutput(snk, o) == [snk EXCEPT ![o].open = FALSE]

Rows(events) == SelectSeq(events, LAMBDA ev : ev.op = "EndRow")

(***************************************************************************)
(* ParquetWriter of vti2pqtv2a.cc                                          *)
(***************************************************************************)
NewWriter_zero(o, rowid0) ==
  [writer_ |-> "open", rowid_ |-> 0, pending_rgflush_ |-> FALSE, out |-> o]

NewWriter(o, rowid0) ==
  [writer_ |-> "open", rowid_ |-> rowid0, pending_rgflush_ |-> FALSE, out |-> o]

AppendEvents_v2a_noboundary(w, timestep, v02, v03) ==
  << EndRow([timestep |-> timestep, rowid |-> w.rowid_,
             v02 |-> Quantize(v02), v03 |-> Quantize(v03)]) >>

\* The events ParquetWriter::Append sends to the StreamWriter.
AppendEvents_v2a(w, timestep, v02, v03) ==
  (IF w.pending_rgflush_ THEN <<EndRowGroup>> ELSE <<>>)
    \o << EndRow([timestep |-> timestep, rowid |-> w.rowid_,
                  v02 |-> Quantize(v02), v03 |-> Quantize(v03)]) >>

\* The writer after ParquetWriter::Append.
Append_v2a(w) == [w EXCEPT !.pending_rgflush_ = FALSE, !.rowid_ = @ + 1]

FlushRowGroup_keep(w) == [w EXCEPT !.pending_rgflush_ = TRUE]

FlushRowGroup(w) == [w EXCEPT !.pending_rgflush_ = TRUE, !.rowid_ = 0]

Finish(w) == [w EXCEPT !.writer_ = "nullptr"]

(***************************************************************************)
(* opendir, common to the programs                                         *)
(***************************************************************************)
OpenDir ==
  /\ pc = "opendir"
  /\ pc' = "readdir"
  /\ UNCHANGED <<prog, ceiling, dir, entry, tmp2, work_items, kv, fr, it,
                 writer, sink, calls, rewrites>>

\* opendir returns NULL: exit(EXIT_FAILURE).
OpenDirFails ==
  /\ pc = "opendir"
  /\ pc' = "exit_failure"
  /\ UNCHANGED <<prog, ceiling, dir, entry, tmp2, work_items, kv, fr, it,
                 writer, sink, calls, rewrites>>

(***************************************************************************)
(* vti2pqtv2a.cc: ProcessDir and Rewrite                                   *)
(***************************************************************************)
MapPut_first(m, t, v) == [k \in DOMAIN m \cup {t} |-> IF k \in DOMAIN m THEN m[k] ELSE v]

\* work_items[t] = tmp1
MapPut(m, t, v) == [k \in DOMAIN m \cup {t} |-> IF k = t THEN v ELSE m[k]]

KeyAt_unordered(m, k) ==
  LET at(t) == CHOOSE d \in 1..Len(dir) : InDir \o <<"/">> \o dir[d].name = m[t]
  IN  CHOOSE t \in DOMAIN m : Cardinality({u \in DOMAIN m : at(u) < at(t)}) = k - 1

\* The k-th pair of the map in iteration order.
KeyAt(m, k) ==
  CHOOSE t \in DOMAIN m : Cardinality({u \in DOMAIN m : u < t}) = k - 1

\* The directory entry a path names.
FileAt(path) ==
  CHOOSE d \in 1..Len(dir) : InDir \o <<"/">> \o dir[d].name = path

\* One turn of the readdir loop.
ReadDir_v2a ==
  /\ prog = "v2a" /\ pc = "readdir" /\ entry < Len(dir)
  /\ entry' = entry + 1
  /\ LET f    == dir[entry + 1].name
         tmp1 == InDir \o <<"/">> \o f
         key  == Substr(f, Len(f) - SuffixLen - KeyWidth, KeyWidth)
     IN  IF dir[entry + 1].d_type = "DT_REG" /\ StringEndWith(f, DotVti)
           THEN /\ tmp2' = IF Len(tmp2) = Len(OutDir)
                             THEN tmp2 \o <<"/">>
                                    \o Substr(f, 0, Len(f) - SuffixLen - KeyWidth - 1)
                                    \o DotParquet
                             ELSE tmp2
                /\ IF key = OutOfRange
                     THEN pc' = "terminate" /\ UNCHANGED work_items
                     ELSE pc' = pc /\ work_items' = MapPut(work_items, Atoi(key), tmp1)
           ELSE UNCHANGED <<tmp2, work_items, pc>>
  /\ UNCHANGED <<prog, ceiling, dir, kv, fr, it, writer, sink, calls, rewrites>>

\* closedir, FileOutputStream::Open(tmp2) and the writer's constructor.
\* With no matching file tmp2 still names the output directory and cannot
\* be opened for writing.
OpenSink_v2a ==
  /\ prog = "v2a" /\ pc = "readdir" /\ entry = Len(dir)
  /\ Len(tmp2) # Len(OutDir)
  /\ sink' = Append(sink, NewOutput(tmp2, NoKV, 0))
  /\ writer' = NewWriter(Len(sink) + 1, 0)
  /\ calls' = Append(calls, [op |-> "Open", out |-> Len(sink) + 1])
  /\ pc' = "work"
  /\ UNCHANGED <<prog, ceiling, dir, entry, tmp2, work_items, kv, fr, it, rewrites>>

\* PARQUET_ASSIGN_OR_THROW throws and nothing catches it.
OpenSinkFails_v2a ==
  /\ prog = "v2a" /\ pc = "readdir" /\ entry = Len(dir)
  /\ pc' = "terminate"
  /\ UNCHANGED <<prog, ceiling, dir, entry, tmp2, work_items, kv, fr, it,
                 writer, sink, calls, rewrites>>

\* Rewrite up to it.SeekToFirst(), for the next pair of work_items.
Rewrite_v2a ==
  /\ prog = "v2a" /\ pc = "work" /\ kv <= Cardinality(DOMAIN work_items)
  /\ LET t    == KeyAt(work_items, kv)
         from == work_items[t]
         d    == FileAt(from)
     IN  /\ fr' = [NoFrame EXCEPT !.from = from, !.timestep = t]
         /\ rewrites' = Append(rewrites, [src |-> d, timestep |-> t, done |-> FALSE])
         /\ IF IteratorOk(dir[d], {"v02", "v03"})
              THEN it' = NewIterator(dir[d], d) /\ pc' = "loop"
              ELSE it' = it /\ pc' = "segv"
  /\ UNCHANGED <<prog, ceiling, dir, entry, tmp2, work_items, kv, writer, sink, calls>>

\* while (it.Valid()) { writer->Append(...); it.Next(); }
Loop_v2a ==
  /\ prog = "v2a" /\ pc = "loop" /\ Valid(it)
  /\ LET f   == dir[it.src]
         evs == AppendEvents_v2a(writer, fr.timestep, V02(f, it.i_), V03(f, it.i_))
     IN  /\ sink' = [sink EXCEPT ![writer.out].events = @ \o evs]
         /\ calls' = Append(calls, [op |-> "Append", out |-> writer.out,
                                    row |-> evs[Len(evs)].row,
                                    src |-> it.src, idx |-> it.i_])
  /\ writer' = Append_v2a(writer)
  /\ it' = ItNext(it)
  /\ UNCHANGED <<prog, ceiling, dir, pc, entry, tmp2, work_items, kv, fr, rewrites>>

LoopExit_v2a_eager ==
  /\ prog = "v2a" /\ pc = "loop" /\ ~Valid(it)
  /\ writer' = [writer EXCEPT !.rowid_ = 0]
  /\ sink' = [sink EXCEPT ![writer.out].events = @ \o <<EndRowGroup>>]
  /\ calls' = Append(calls, [op |-> "FlushRowGroup", out |-> writer.out])
  /\ rewrites' = [rewrites EXCEPT ![Len(rewrites)].done = TRUE]
  /\ kv' = kv + 1
  /\ pc' = "work"
  /\ UNCHANGED <<prog, ceiling, dir, entry, tmp2, work_items, fr, it>>

\* The loop ends: writer->FlushRowGroup() and Rewrite returns.
LoopExit_v2a ==
  /\ prog = "v2a" /\ pc = "loop" /\ ~Valid(it)
  /\ writer' = FlushRowGroup(writer)
  /\ calls' = Append(calls, [op |-> "FlushRowGroup", out |-> writer.out])
  /\ rewrites' = [rewrites EXCEPT ![Len(rewrites)].done = TRUE]
  /\ kv' = kv + 1
  /\ pc' = "work"
  /\ UNCHANGED <<prog, ceiling, dir, entry, tmp2, work_items, fr, it, sink>>

\* writer.Finish(); printf("Done!\n")
Finish_v2a ==
  /\ prog = "v2a" /\ pc = "work" /\ kv > Cardinality(DOMAIN work_items)
  /\ writer' = Finish(writer)
  /\ sink' = CloseOutput(sink, writer.out)
  /\ calls' = Append(calls, [op |-> "Finish", out |-> writer.out])
  /\ pc' = "Done"
  /\ UNCHANGED <<prog, ceiling, dir, entry, tmp2, work_items, kv, fr, it, rewrites>>

Next_v2a ==
  \/ ReadDir_v2a
  \/ OpenSink_v2a
  \/ OpenSinkFails_v2a
  \/ Rewrite_v2a
  \/ Loop_v2a
  \/ LoopExit_v2a
  \/ Finish_v2a

(***************************************************************************)
(* vti2pqtv2b.cc, lines 1-248: the split converter                         *)
(***************************************************************************)
UnderCeiling_incl(n, c) == n <= c

\* n < 100 * 500 * 500 (and n < 31250000 in the repack tool)
UnderCeiling(n, c) == n < c

AppendEvents_v2b(w, timestep, v02, v03) ==
  << EndRow([timestep |-> timestep, rowid |-> w.rowid_,
             v02 |-> Quantize(v02), v03 |-> Quantize(v03)]) >>

Append_v2b(w) == [w EXCEPT !.rowid_ = @ + 1]

SplitName_suffix(to, i) == to \o <<".">> \o IntToString(i) \o DotParquet

\* myto = to + "." + std::to_string(i)
SplitName(to, i) == to \o <<".">> \o IntToString(i)

\* One turn of the readdir loop, up to it.SeekToFirst() in Rewrite.
ReadDir_v2b ==
  /\ prog = "v2b" /\ pc = "readdir" /\ entry < Len(dir)
  /\ entry' = entry + 1
  /\ LET f    == dir[entry + 1].name
         tmp1 == InDir \o <<"/">> \o f
         to   == OutDir \o <<"/">> \o Substr(f, 0, Len(f) - SuffixLen) \o DotParquet
         key  == Substr(f, Len(f) - SuffixLen - KeyWidth, KeyWidth)
     IN  IF dir[entry + 1].d_type = "DT_REG" /\ StringEndWith(f, DotVti)
           THEN IF key = OutOfRange
                  THEN pc' = "terminate" /\ UNCHANGED <<fr, it, rewrites>>
                  ELSE /\ fr' = [NoFrame EXCEPT !.from = tmp1, !.to = to,
                                                !.timestep = Atoi(key)]
                       /\ rewrites' = Append(rewrites,
                            [src |-> entry + 1, timestep |-> Atoi(key), done |-> FALSE])
                       /\ IF IteratorOk(dir[entry + 1], {"v02", "v03"})
                            THEN it' = NewIterator(dir[entry + 1], entry + 1)
                                 /\ pc' = "split"
                            ELSE it' = it /\ pc' = "segv"
           ELSE UNCHANGED <<pc, fr, it, rewrites>>
  /\ UNCHANGED <<prog, ceiling, dir, tmp2, work_items, kv, writer, sink, calls>>

\* while (it.Valid()): the next split file is opened (Rewrite0 up to n = 0).
Rewrite0_v2b ==
  /\ prog = "v2b" /\ pc = "split" /\ Valid(it)
  /\ sink' = Append(sink, NewOutput(SplitName(fr.to, fr.i), NoKV, it.src))
  /\ writer' = NewWriter(Len(sink) + 1, fr.rowid)
  /\ calls' = Append(calls, [op |-> "Open", out |-> Len(sink) + 1])
  /\ fr' = [fr EXCEPT !.i = @ + 1, !.n = 0]
  /\ pc' = "loop"
  /\ UNCHANGED <<prog, ceiling, dir, entry, tmp2, work_items, kv, it, rewrites>>

Rewrite0Fails_v2b ==
  /\ prog = "v2b" /\ pc = "split" /\ Valid(it)
  /\ pc' = "terminate"
  /\ UNCHANGED <<prog, ceiling, dir, entry, tmp2, work_items, kv, fr, it,
                 writer, sink, calls, rewrites>>

\* while (it->Valid() && n < 100 * 500 * 500) { Append; n++; it->Next(); }
Loop_v2b ==
  /\ prog = "v2b" /\ pc = "loop" /\ Valid(it) /\ UnderCeiling(fr.n, ceiling)
  /\ LET f   == dir[it.src]
         evs == AppendEvents_v2b(writer, fr.timestep, V02(f, it.i_), V03(f, it.i_))
     IN  /\ sink' = [sink EXCEPT ![writer.out].events = @ \o evs]
         /\ calls' = Append(calls, [op |-> "Append", out |-> writer.out,
                                    row |-> evs[Len(evs)].row,
                                    src |-> it.src, idx |-> it.i_])
  /\ writer' = Append_v2b(writer)
  /\ fr' = [fr EXCEPT !.n = @ + 1]
  /\ it' = ItNext(it)
  /\ UNCHANGED <<prog, ceiling, dir, pc, entry, tmp2, work_items, kv, rewrites>>

\* writer.Finish(); return n; and in Rewrite: rowid += n.
LoopExit_v2b ==
  /\ prog = "v2b" /\ pc = "loop" /\ ~(Valid(it) /\ UnderCeiling(fr.n, ceiling))
  /\ writer' = Finish(writer)
  /\ sink' = CloseOutput(sink, writer.out)
  /\ calls' = Append(calls, [op |-> "Finish", out |-> writer.out])
  /\ fr' = [fr EXCEPT !.rowid = @ + fr.n]
  /\ pc' = "split"
  /\ UNCHANGED <<prog, ceiling, dir, entry, tmp2, work_items, kv, it, rewrites>>

\* The while loop of Rewrite ends and Rewrite returns.
Return_v2b ==
  /\ prog = "v2b" /\ pc = "split" /\ ~Valid(it)
  /\ rewrites' = [rewrites EXCEPT ![Len(rewrites)].done = TRUE]
  /\ pc' = "readdir"
  /\ UNCHANGED <<prog, ceiling, dir, entry, tmp2, work_items, kv, fr, it,
                 writer, sink, calls>>

\* readdir returns NULL: closedir; printf("Done!\n").  The same in the
\* repack tool and in the per-file converters.  Every entry that was in the
\* directory at opendir has been returned; whether readdir also returns a
\* file created since then is unspecified.
Done_perfile ==
  /\ prog \in {"v2b", "repack", "meta", "vtu"} /\ pc = "readdir"
  /\ \A d \in (entry + 1)..Len(dir) : dir[d].created
  /\ pc' = "Done"
  /\ UNCHANGED <<prog, ceiling, dir, entry, tmp2, work_items, kv, fr, it,
                 writer, sink, calls, rewrites>>

Next_v2b ==
  \/ ReadDir_v2b
  \/ Rewrite0_v2b
  \/ Rewrite0Fails_v2b
  \/ Loop_v2b
  \/ LoopExit_v2b
  \/ Return_v2b

(***************************************************************************)
(* vti2pqtv2b.cc, lines 250-438: the repack tool                           *)
(***************************************************************************)
\* parquet::StreamReader::eof(): no row is left to read.
Eof(reader) == reader.i_ >= reader.n_

AppendEvents_repack_quant(timestep, rowid, v02, v03) ==
  << EndRow([timestep |-> timestep, rowid |-> rowid,
             v02 |-> Quantize(v02), v03 |-> Quantize(v03)]) >>

\* ParquetWriter::Append(timestep, rowid, v02, v03)
AppendEvents_repack(timestep, rowid, v02, v03) ==
  << EndRow([timestep |-> timestep, rowid |-> rowid, v02 |-> v02, v03 |-> v03]) >>

\* One turn of the readdir loop, up to int i = 0 in Rewrite.
ReadDir_repack ==
  /\ prog = "repack" /\ pc = "readdir" /\ entry < Len(dir)
  /\ entry' = entry + 1
  /\ LET f   == dir[entry + 1].name
         tmp == InDir \o <<"/">> \o f
     IN  IF dir[entry + 1].d_type = "DT_REG" /\ StringEndWith(f, DotParquet)
           THEN /\ fr' = [NoFrame EXCEPT !.from = tmp, !.to = tmp]
                /\ rewrites' = Append(rewrites,
                     [src |-> entry + 1, timestep |-> 0, done |-> FALSE])
                /\ it' = NewIterator(dir[entry + 1], entry + 1)
                /\ pc' = "split"
           ELSE UNCHANGED <<pc, fr, it, rewrites>>
  /\ UNCHANGED <<prog, ceiling, dir, tmp2, work_items, kv, writer, sink, calls>>

\* The directory entry of an output of the repack tool: the file is created
\* in the directory that is being read.  It holds the rows of its source
\* from index i on; n counts them once the file is finished.
CreatedEntry(f, name, i) ==
  [f EXCEPT !.name = name, !.n = 0, !.first = f.first + i, !.created = TRUE]

\* while (!reader.eof()): the next output is opened (Rewrite0 up to n = 0).
Rewrite0_repack ==
  /\ prog = "repack" /\ pc = "split" /\ ~Eof(it)
  /\ sink' = Append(sink, NewOutput(SplitName(fr.to, fr.i), NoKV, it.src))
  /\ dir' = Append(dir, CreatedEntry(dir[it.src],
                                     SplitName(dir[it.src].name, fr.i), it.i_))
  /\ writer' = NewWriter(Len(sink) + 1, 0)
  /\ calls' = Append(calls, [op |-> "Open", out |-> Len(sink) + 1])
  /\ fr' = [fr EXCEPT !.i = @ + 1, !.n = 0]
  /\ pc' = "loop"
  /\ UNCHANGED <<prog, ceiling, entry, tmp2, work_items, kv, it, rewrites>>

Rewrite0Fails_repack ==
  /\ prog = "repack" /\ pc = "split" /\ ~Eof(it)
  /\ pc' = "terminate"
  /\ UNCHANGED <<prog, ceiling, dir, entry, tmp2, work_items, kv, fr, it,
                 writer, sink, calls, rewrites>>

\* while (!reader->eof() && n < 31250000) { *reader >> ...; Append; n++; }
Loop_repack ==
  /\ prog = "repack" /\ pc = "loop" /\ ~Eof(it) /\ UnderCeiling(fr.n, ceiling)
  /\ LET r   == InputRow(dir[it.src], it.i_)
         evs == AppendEvents_repack(r.timestep, r.rowid, r.v02, r.v03)
     IN  /\ sink' = [sink EXCEPT ![writer.out].events = @ \o evs]
         /\ calls' = Append(calls, [op |-> "Append", out |-> writer.out,
                                    row |-> evs[Len(evs)].row,
                                    src |-> it.src, idx |-> it.i_])
  /\ fr' = [fr EXCEPT !.n = @ + 1]
  /\ it' = ItNext(it)
  /\ UNCHANGED <<prog, ceiling, dir, pc, entry, tmp2, work_items, kv, writer, rewrites>>

LoopExit_repack ==
  /\ prog = "repack" /\ pc = "loop" /\ ~(~Eof(it) /\ UnderCeiling(fr.n, ceiling))
  /\ writer' = Finish(writer)
  /\ sink' = CloseOutput(sink, writer.out)
  /\ dir' = [dir EXCEPT ![Len(dir)].n = fr.n]
  /\ calls' = Append(calls, [op |-> "Finish", out |-> writer.out])
  /\ pc' = "split"
  /\ UNCHANGED <<prog, ceiling, entry, tmp2, work_items, kv, fr, it, rewrites>>

Return_repack ==
  /\ prog = "repack" /\ pc = "split" /\ Eof(it)
  /\ rewrites' = [rewrites EXCEPT ![Len(rewrites)].done = TRUE]
  /\ pc' = "readdir"
  /\ UNCHANGED <<prog, ceiling, dir, entry, tmp2, work_items, kv, fr, it,
                 writer, sink, calls>>

Next_repack ==
  \/ ReadDir_repack
  \/ Rewrite0_repack
  \/ Rewrite0Fails_repack
  \/ Loop_repack
  \/ LoopExit_repack
  \/ Return_repack

(***************************************************************************)
(* unnamed/part_000: the per-file converter with metadata                  *)
(***************************************************************************)
\* ExtraMetadata reads cycle_index through
\* FastDownCast(GetAbstractArray("cycle_index"))->GetValue(0).
MetadataOk(f) == f.cycle # <<>>

ExtraMetadata_swapped(f) ==
  [extent_0 |-> IntToString(f.extent[1]), extent_1 |-> IntToString(f.extent[2]),
   extent_2 |-> IntToString(f.extent[3]), extent_3 |-> IntToString(f.extent[4]),
   extent_4 |-> IntToString(f.extent[5]), extent_5 |-> IntToString(f.extent[6]),
   origin_0 |-> DoubleToString(f.origin[1]),
   origin_1 |-> DoubleToString(f.origin[1]),
   origin_2 |-> DoubleToString(f.origin[3]),
   spacing_0 |-> DoubleToString(f.spacing[1]),
   spacing_1 |-> DoubleToString(f.spacing[2]),
   spacing_2 |-> DoubleToString(f.spacing[3]),
   cycle_index |-> IntToString(f.cycle[1])]

\* kv["extent_0"] = std::to_string(ext[0]); ... kv["cycle_index"] = ...
ExtraMetadata(f) ==
  [extent_0 |-> IntToString(f.extent[1]), extent_1 |-> IntToString(f.extent[2]),
   extent_2 |-> IntToString(f.extent[3]), extent_3 |-> IntToString(f.extent[4]),
   extent_4 |-> IntToString(f.extent[5]), extent_5 |-> IntToString(f.extent[6]),
   origin_0 |-> DoubleToString(f.origin[1]),
   origin_1 |-> DoubleToString(f.origin[2]),
   origin_2 |-> DoubleToString(f.origin[3]),
   spacing_0 |-> DoubleToString(f.spacing[1]),
   spacing_1 |-> DoubleToString(f.spacing[2]),
   spacing_2 |-> DoubleToString(f.spacing[3]),
   cycle_index |-> IntToString(f.cycle[1])]

AppendEvents_meta(w, v02, v03) ==
  << EndRow([rowid |-> w.rowid_, v02 |-> Quantize(v02), v03 |-> Quantize(v03)]) >>

Append_meta(w) == [w EXCEPT !.rowid_ = @ + 1]

\* One turn of the readdir loop, up to the call of Rewrite.
ReadDir_meta ==
  /\ prog = "meta" /\ pc = "readdir" /\ entry < Len(dir)
  /\ entry' = entry + 1
  /\ LET f    == dir[entry + 1].name
         tmp1 == InDir \o <<"/">> \o f
         to   == OutDir \o <<"/">> \o Substr(f, 0, Len(f) - SuffixLen) \o DotParquet
     IN  IF dir[entry + 1].d_type \in {"DT_REG", "DT_LNK"} /\ StringEndWith(f, DotVti)
           THEN /\ fr' = [NoFrame EXCEPT !.from = tmp1, !.to = to]
                /\ rewrites' = Append(rewrites,
                     [src |-> entry + 1, timestep |-> 0, done |-> FALSE])
                /\ pc' = "rewrite"
           ELSE UNCHANGED <<pc, fr, rewrites>>
  /\ UNCHANGED <<prog, ceiling, dir, tmp2, work_items, kv, it, writer, sink, calls>>

Rewrite_meta_default ==
  /\ prog = "meta" /\ pc = "rewrite"
  /\ LET d == entry
         f == dir[d]
         o == Len(sink) + 1
     IN  /\ sink' = Append(sink, NewOutput(fr.to,
                      IF MetadataOk(f) THEN ExtraMetadata(f) ELSE NoKV, d))
         /\ writer' = NewWriter(o, 0)
         /\ calls' = calls \o << [op |-> "ExtraMetadata", out |-> o, ok |-> TRUE],
                                 [op |-> "Open", out |-> o] >>
         /\ IF IteratorOk(f, {"prs", "tev", "v02", "v03"})
              THEN it' = NewIterator(f, d) /\ pc' = "loop"
              ELSE it' = it /\ pc' = "segv"
  /\ UNCHANGED <<prog, ceiling, dir, entry, tmp2, work_items, kv, fr, rewrites>>

\* Rewrite up to it.SeekToFirst(): the output stream is opened, then
\* ExtraMetadata runs, then the writer and the Iterator are constructed.
\* Without a cycle_index array FastDownCast yields a null pointer and
\* GetValue(0) reads through it: the process faults inside ExtraMetadata,
\* after the output file was created.
Rewrite_meta ==
  /\ prog = "meta" /\ pc = "rewrite"
  /\ LET d == entry
         f == dir[d]
         o == Len(sink) + 1
     IN  IF ~MetadataOk(f)
           THEN /\ sink' = Append(sink, NewOutput(fr.to, NoKV, d))
                /\ calls' = Append(calls,
                     [op |-> "ExtraMetadata", out |-> o, ok |-> FALSE])
                /\ pc' = "segv"
                /\ UNCHANGED <<writer, it>>
           ELSE /\ sink' = Append(sink, NewOutput(fr.to, ExtraMetadata(f), d))
                /\ writer' = NewWriter(o, 0)
                /\ calls' = calls \o
                     << [op |-> "ExtraMetadata", out |-> o, ok |-> TRUE],
                        [op |-> "Open", out |-> o] >>
                /\ IF IteratorOk(f, {"prs", "tev", "v02", "v03"})
                     THEN it' = NewIterator(f, d) /\ pc' = "loop"
                     ELSE it' = it /\ pc' = "segv"
  /\ UNCHANGED <<prog, ceiling, dir, entry, tmp2, work_items, kv, fr, rewrites>>

RewriteFails_meta ==
  /\ prog = "meta" /\ pc = "rewrite"
  /\ pc' = "terminate"
  /\ UNCHANGED <<prog, ceiling, dir, entry, tmp2, work_items, kv, fr, it,
                 writer, sink, calls, rewrites>>

\* while (it.Valid()) { writer.Append(&it); it.Next(); }
Loop_meta ==
  /\ prog = "meta" /\ pc = "loop" /\ Valid(it)
  /\ LET f   == dir[it.src]
         evs == AppendEvents_meta(writer, V02(f, it.i_), V03(f, it.i_))
     IN  /\ sink' = [sink EXCEPT ![writer.out].events = @ \o evs]
         /\ calls' = Append(calls, [op |-> "Append", out |-> writer.out,
                                    row |-> evs[Len(evs)].row,
                                    src |-> it.src, idx |-> it.i_])
  /\ writer' = Append_meta(writer)
  /\ it' = ItNext(it)
  /\ UNCHANGED <<prog, ceiling, dir, pc, entry, tmp2, work_items, kv, fr, rewrites>>

\* writer.Finish() and Rewrite returns.
LoopExit_meta ==
  /\ prog = "meta" /\ pc = "loop" /\ ~Valid(it)
  /\ writer' = Finish(writer)
  /\ sink' = CloseOutput(sink, writer.out)
  /\ calls' = Append(calls, [op |-> "Finish", out |-> writer.out])
  /\ rewrites' = [rewrites EXCEPT ![Len(rewrites)].done = TRUE]
  /\ pc' = "readdir"
  /\ UNCHANGED <<prog, ceiling, dir, entry, tmp2, work_items, kv, fr, it>>

Next_meta ==
  \/ ReadDir_meta
  \/ Rewrite_meta
  \/ RewriteFails_meta
  \/ Loop_meta
  \/ LoopExit_meta

(***************************************************************************)
(* src/unnamed/part_001: the per-file converter of unstructured grids      *)
(***************************************************************************)
\* xrage::ParquetWriter holds the StreamWriter only.
NewWriter_vtu(o) == [writer_ |-> "open", out |-> o]

\* *writer_ << it->rho() << ... << it->v03() << parquet::EndRow
AppendEvents_vtu(f, j) ==
  << EndRow([c \in DOMAIN CellColumns |-> CellValue(f, c, j)]) >>

\* One turn of the readdir loop, up to the call of Rewrite.
ReadDir_vtu ==
  /\ prog = "vtu" /\ pc = "readdir" /\ entry < Len(dir)
  /\ entry' = entry + 1
  /\ LET f    == dir[entry + 1].name
         tmp1 == InDir \o <<"/">> \o f
         to   == OutDir \o <<"/">> \o Substr(f, 0, Len(f) - SuffixLen) \o DotParquet
     IN  IF dir[entry + 1].d_type \in {"DT_REG", "DT_LNK"} /\ StringEndWith(f, DotVtu)
           THEN /\ fr' = [NoFrame EXCEPT !.from = tmp1, !.to = to]
                /\ rewrites' = Append(rewrites,
                     [src |-> entry + 1, timestep |-> 0, done |-> FALSE])
                /\ pc' = "rewrite"
           ELSE UNCHANGED <<pc, fr, rewrites>>
  /\ UNCHANGED <<prog, ceiling, dir, tmp2, work_items, kv, it, writer, sink, calls>>

Rewrite_vtu_skip ==
  /\ prog = "vtu" /\ pc = "rewrite"
  /\ LET d == entry
         f == dir[d]
         o == Len(sink) + 1
     IN  /\ sink' = Append(sink, NewOutput(fr.to, NoKV, d))
         /\ writer' = NewWriter_vtu(o)
         /\ calls' = Append(calls, [op |-> "Open", out |-> o])
         /\ IF IteratorOk(f, CellArrays)
              THEN it' = NewIterator(f, d) /\ pc' = "loop"
              ELSE it' = it /\ pc' = "readdir"
  /\ UNCHANGED <<prog, ceiling, dir, entry, tmp2, work_items, kv, fr, rewrites>>

\* Rewrite up to it.SeekToFirst(): the output stream is opened, the writer
\* is constructed, then the Iterator.
Rewrite_vtu ==
  /\ prog = "vtu" /\ pc = "rewrite"
  /\ LET d == entry
         f == dir[d]
         o == Len(sink) + 1
     IN  /\ sink' = Append(sink, NewOutput(fr.to, NoKV, d))
         /\ writer' = NewWriter_vtu(o)
         /\ calls' = Append(calls, [op |-> "Open", out |-> o])
         /\ IF IteratorOk(f, CellArrays)
              THEN it' = NewIterator(f, d) /\ pc' = "loop"
              ELSE it' = it /\ pc' = "segv"
  /\ UNCHANGED <<prog, ceiling, dir, entry, tmp2, work_items, kv, fr, rewrites>>

\* PARQUET_ASSIGN_OR_THROW throws and nothing catches it.
RewriteFails_vtu ==
  /\ prog = "vtu" /\ pc = "rewrite"
  /\ pc' = "terminate"
  /\ UNCHANGED <<prog, ceiling, dir, entry, tmp2, work_items, kv, fr, it,
                 writer, sink, calls, rewrites>>

\* while (it.Valid()) { writer.Append(&it); it.Next(); }
Loop_vtu ==
  /\ prog = "vtu" /\ pc = "loop" /\ Valid(it)
  /\ LET evs == AppendEvents_vtu(dir[it.src], it.i_)
     IN  /\ sink' = [sink EXCEPT ![writer.out].events = @ \o evs]
         /\ calls' = Append(calls, [op |-> "Append", out |-> writer.out,
                                    row |-> evs[Len(evs)].row,
                                    src |-> it.src, idx |-> it.i_])
  /\ it' = ItNext(it)
  /\ UNCHANGED <<prog, ceiling, dir, pc, entry, tmp2, work_items, kv, fr,
                 writer, rewrites>>

\* writer.Finish() and Rewrite returns.
LoopExit_vtu ==
  /\ prog = "vtu" /\ pc = "loop" /\ ~Valid(it)
  /\ writer' = Finish(writer)
  /\ sink' = CloseOutput(sink, writer.out)
  /\ calls' = Append(calls, [op |-> "Finish", out |-> writer.out])
  /\ rewrites' = [rewrites EXCEPT ![Len(rewrites)].done = TRUE]
  /\ pc' = "readdir"
  /\ UNCHANGED <<prog, ceiling, dir, entry, tmp2, work_items, kv, fr, it>>

Next_vtu ==
  \/ ReadDir_vtu
  \/ Rewrite_vtu
  \/ RewriteFails_vtu
  \/ Loop_vtu
  \/ LoopExit_vtu

Next ==
  \/ OpenDir
  \/ OpenDirFails
  \/ Done_perfile
  \/ Next_v2a
  \/ Next_v2b
  \/ Next_repack
  \/ Next_meta
  \/ Next_vtu

Spec == Init /\ [][Next]_vars

(***************************************************************************)
(* GetSchema and the parquet::WriterProperties each ParquetWriter builds.  *)
(***************************************************************************)
\* The columns of GetSchema(), in order.
Schema(p) ==
  IF p \in {"v2a", "v2b", "repack", "writer"}
    THEN <<"timestep", "rowid", "v02", "v03">>
  ELSE IF p = "meta" THEN <<"rowid", "v02", "v03">>
  ELSE CellColumns

\* parquet::Type of a column.
ColumnType(c) == IF c \in {"timestep", "rowid"} THEN "INT32" ELSE "FLOAT"

\* parquet::WriterProperties::Builder as constructed: no compression, plain
\* encoding, dictionary encoding enabled, no setting for single columns.
DefaultBuilder ==
  [compression |-> "UNCOMPRESSED", encoding |-> "PLAIN", dictionary |-> TRUE,
   column_compression |-> <<>>, column_encoding |-> <<>>]

\* The builder after the calls made in the constructor of ParquetWriter.
WriterProperties(p) ==
  IF p \in {"v2a", "v2b", "repack", "writer"}
    THEN [DefaultBuilder EXCEPT
            !.column_compression = [c \in {"timestep", "rowid"} |-> "SNAPPY"],
            !.compression = "UNCOMPRESSED",
            !.column_encoding = [c \in {"timestep", "rowid"} |-> "DELTA_BINARY_PACKED"],
            !.encoding = "PLAIN",
            !.dictionary = FALSE]
  ELSE IF p = "meta"
    THEN [DefaultBuilder EXCEPT
            !.column_compression = [c \in {"rowid"} |-> "SNAPPY"],
            !.compression = "UNCOMPRESSED",
            !.column_encoding = [c \in {"rowid"} |-> "DELTA_BINARY_PACKED"],
            !.encoding = "PLAIN",
            !.dictionary = FALSE]
  ELSE [DefaultBuilder EXCEPT !.compression = "ZSTD"]

\* WriterProperties::compression(path), encoding(path),
\* dictionary_enabled(path).
Compression(props, c) ==
  IF c \in DOMAIN props.column_compression
    THEN props.column_compression[c] ELSE props.compression

Encoding(props, c) ==
  IF c \in DOMAIN props.column_encoding
    THEN props.column_encoding[c] ELSE props.encoding

DictionaryEnabled(props, c) == props.dictionary

(***************************************************************************)
(* The ParquetWriter of vti2pqtv2a.cc under an arbitrary caller: the       *)
(* public operations Append, FlushRowGroup and Finish in any order on one  *)
(* constructed writer.                                                     *)
(***************************************************************************)
WriterInit ==
  /\ prog = "writer"
  /\ ceiling = 0
  /\ dir = <<>>
  /\ pc = "api"
  /\ entry = 0
  /\ tmp2 = OutDir
  /\ work_items = <<>>
  /\ kv = 1
  /\ fr = NoFrame
  /\ it = NoIt
  /\ writer = NewWriter(1, 0)
  /\ sink = <<NewOutput(OutDir, NoKV, 0)>>
  /\ calls = <<[op |-> "Open", out |-> 1]>>
  /\ rewrites = <<>>

\* writer.Append(timestep, v02, v03); *writer_ is a null pointer once
\* Finish has run.
Api_Append ==
  /\ prog = "writer" /\ pc = "api" /\ Len(calls) <= MaxCalls
  /\ \E t \in 0..1, k \in DOMAIN FloatSamples :
       IF writer.writer_ = "nullptr"
         THEN /\ pc' = "segv"
              /\ calls' = Append(calls, [op |-> "Append", out |-> writer.out])
              /\ UNCHANGED <<writer, sink>>
         ELSE LET evs == AppendEvents_v2a(writer, t, FloatSamples[k], FloatSamples[k])
              IN  /\ sink' = [sink EXCEPT ![writer.out].events = @ \o evs]
                  /\ calls' = Append(calls, [op |-> "Append", out |-> writer.out,
                                             row |-> evs[Len(evs)].row])
                  /\ writer' = Append_v2a(writer)
                  /\ pc' = pc
  /\ UNCHANGED <<prog, ceiling, dir, entry, tmp2, work_items, kv, fr, it, rewrites>>

\* writer.FlushRowGroup()
Api_FlushRowGroup ==
  /\ prog = "writer" /\ pc = "api" /\ Len(calls) <= MaxCalls
  /\ writer' = FlushRowGroup(writer)
  /\ calls' = Append(calls, [op |-> "FlushRowGroup", out |-> writer.out])
  /\ UNCHANGED <<prog, ceiling, dir, pc, entry, tmp2, work_items, kv, fr, it,
                 sink, rewrites>>

\* writer.Finish(): delete writer_ (nothing to do for a null pointer);
\* writer_ = nullptr.
Api_Finish ==
  /\ prog = "writer" /\ pc = "api" /\ Len(calls) <= MaxCalls
  /\ writer' = Finish(writer)
  /\ sink' = CloseOutput(sink, writer.out)
  /\ calls' = Append(calls, [op |-> "Finish", out |-> writer.out])
  /\ UNCHANGED <<prog, ceiling, dir, pc, entry, tmp2, work_items, kv, fr, it,
                 rewrites>>

WriterNext ==
  \/ Api_Append
  \/ Api_FlushRowGroup
  \/ Api_Finish

WriterSpec == WriterInit /\ [][WriterNext]_vars

(***************************************************************************)
(* The repack tool alone, as a process that keeps running until it ends:   *)
(* main of vti2pqtv2b.cc, lines 250-438.                                   *)
(***************************************************************************)
RepackInit == Init /\ prog = "repack"

RepackNext ==
  \/ OpenDir
  \/ OpenDirFails
  \/ Done_perfile
  \/ Next_repack

RepackSpec == RepackInit /\ [][RepackNext]_vars /\ WF_vars(RepackNext)

(***************************************************************************)
(* Properties.                                                             *)
(***************************************************************************)
RECURSIVE SumLen(_)
SumLen(outs) == IF outs = <<>> THEN 0 ELSE Len(Rows(Head(outs).events)) + SumLen(Tail(outs))

\* The Append calls made for the source at position d of the listing.
AppendsFor(d) == {k \in DOMAIN calls : calls[k].op = "Append" /\ calls[k].src = d}

\* The output files opened while the source at position d was rewritten.
OutsOf(d) == SelectSeq(sink, LAMBDA o : o.src = d)

\* The rows of the single output that carry timestep t.
RowsAt(t) == SelectSeq(Rows(sink[1].events), LAMBDA ev : ev.row.timestep = t)

\* C1: once Rewrite has returned for a source of N >= 1 records, exactly N
\* rows have been appended for it: N Append calls, all to one output in the
\* single-output and per-file programs, and N rows in all in the output
\* files of that source in the split programs.
C1_RowCountConservation ==
  \A k \in DOMAIN rewrites :
    LET d == rewrites[k].src
        N == dir[d].n
    IN  (rewrites[k].done /\ N >= 1) =>
          /\ Cardinality(AppendsFor(d)) = N
          /\ IF prog = "v2a"
               THEN /\ \A c \in AppendsFor(d) : calls[c].out = 1
                    /\ Len(RowsAt(rewrites[k].timestep)) = N
               ELSE SumLen(OutsOf(d)) = N
          /\ prog = "meta" => Len(OutsOf(d)) = 1

\* A source of several rows has been rewritten into more than one split file.
C1_Witness ==
  \E k \in DOMAIN rewrites :
    /\ rewrites[k].done
    /\ prog = "v2b"
    /\ dir[rewrites[k].src].n = 7
    /\ Len(OutsOf(rewrites[k].src)) >= 3

CeilDiv(a, b) == (a + b - 1) \div b

\* The path Rewrite appends the sequence suffix to, for the source at d.
SplitBase(d) ==
  IF prog = "repack"
    THEN InDir \o <<"/">> \o dir[d].name
    ELSE OutDir \o <<"/">> \o dir[d].stem \o DotParquet

\* C2: in the split converter and the repack tool, a source of N rows under
\* ceiling C yields exactly ceil(N/C) output files, created in order with the
\* suffixes 0, 1, ..., ceil(N/C)-1; each but the last holds C rows, the last
\* holds N - C*(ceil(N/C)-1); no finished file is empty and no file ever holds
\* more than C rows.
C2_SplittingArithmetic ==
  prog \in {"v2b", "repack"} =>
    /\ \A o \in DOMAIN sink :
         /\ Len(Rows(sink[o].events)) <= ceiling
         /\ ~sink[o].open => Len(Rows(sink[o].events)) >= 1
    /\ \A k \in DOMAIN rewrites :
         LET d    == rewrites[k].src
             N    == dir[d].n
             outs == OutsOf(d)
             cnt  == CeilDiv(N, ceiling)
         IN  rewrites[k].done =>
               /\ Len(outs) = cnt
               /\ \A j \in 1..Len(outs) :
                    /\ outs[j].name = SplitBase(d) \o <<".">> \o IntToString(j - 1)
                    /\ Len(Rows(outs[j].events)) =
                         IF j < cnt THEN ceiling ELSE N - ceiling * (cnt - 1)

\* Ceiling 3 and 7 rows: three files of 3, 3 and 1 rows; and a source whose
\* row count is a multiple of the ceiling has been split without remainder.
C2_Witness ==
  /\ prog \in {"v2b", "repack"} /\ ceiling = 3 /\ pc = "Done"
  /\ \E k \in DOMAIN rewrites :
       /\ dir[rewrites[k].src].n = 7
       /\ Len(OutsOf(rewrites[k].src)) = 3
       /\ Len(Rows(OutsOf(rewrites[k].src)[3].events)) = 1
  /\ \E k \in DOMAIN rewrites :
       /\ dir[rewrites[k].src].n = 3
       /\ Len(OutsOf(rewrites[k].src)) = 1

\* C3: in the writers that number the rows, a row that follows another row
\* with no end-of-row-group between them has the previous rowid plus 1; the
\* first row appended after a FlushRowGroup call has rowid 0; a writer
\* without FlushRowGroup never resets the rowid, so the j-th row of its file
\* has the rowid of the first row plus j - 1.
C3_RowIds ==
  prog \in {"v2a", "v2b", "meta"} =>
    /\ \A o \in DOMAIN sink :
         LET ev == sink[o].events
         IN  /\ \A j \in 1..(Len(ev) - 1) :
                  (ev[j].op = "EndRow" /\ ev[j + 1].op = "EndRow")
                    => ev[j + 1].row.rowid = ev[j].row.rowid + 1
             /\ prog # "v2a" =>
                  \A j \in 1..Len(ev) : ev[j].row.rowid = ev[1].row.rowid + j - 1
    /\ \A c \in DOMAIN calls :
         (c > 1 /\ calls[c].op = "Append" /\ calls[c - 1].op = "FlushRowGroup")
           => calls[c].row.rowid = 0

\* A row group of several rows has been flushed and the next group begun.
C3_Witness ==
  /\ prog = "v2a"
  /\ \E c \in DOMAIN calls :
       /\ c > 3
       /\ calls[c].op = "Append" /\ calls[c].row.rowid = 0
       /\ calls[c - 1].op = "FlushRowGroup"
       /\ calls[c - 2].op = "Append" /\ calls[c - 2].row.rowid >= 2

\* The entries the single-output scheduler selects, and the last one
\* enumerated among those that carry the same timestep key.
Selected_v2a == {d \in 1..Len(dir) : dir[d].d_type = "DT_REG"}

LastWith(t) ==
  CHOOSE d \in Selected_v2a :
    /\ dir[d].ts = t
    /\ \A e \in Selected_v2a : dir[e].ts = t => e <= d

\* C4: the single-output scheduler calls Rewrite in strictly ascending key
\* order; the file rewritten for a key is the last one enumerated with that
\* key, and no row is appended from any other file; when the run is done
\* every key of the listing has been processed (once).
C4_WorkOrdering ==
  prog = "v2a" =>
    /\ \A j, k \in DOMAIN rewrites :
         j < k => rewrites[j].timestep < rewrites[k].timestep
    /\ \A k \in DOMAIN rewrites :
         /\ rewrites[k].timestep = dir[rewrites[k].src].ts
         /\ rewrites[k].src = LastWith(rewrites[k].timestep)
    /\ \A c \in DOMAIN calls :
         calls[c].op = "Append" =>
           /\ calls[c].src = LastWith(dir[calls[c].src].ts)
           /\ calls[c].row.timestep = dir[calls[c].src].ts
    /\ pc = "Done" =>
         {rewrites[k].timestep : k \in DOMAIN rewrites}
           = {dir[d].ts : d \in Selected_v2a}

\* Keys enumerated as 15, 2, 2: the work sequence is 2, 15 and the rows of
\* key 2 come from the file enumerated later.
C4_Witness ==
  /\ prog = "v2a" /\ pc = "Done" /\ Len(dir) = 3
  /\ dir[1].ts = 15 /\ dir[2].ts = 2 /\ dir[3].ts = 2
  /\ Len(rewrites) = 2
  /\ rewrites[1].timestep = 2 /\ rewrites[1].src = 3
  /\ rewrites[2].timestep = 15 /\ rewrites[2].src = 1
  /\ Len(Rows(sink[1].events)) = dir[3].n + dir[1].n

RECURSIVE ConcatRows(_)
ConcatRows(outs) ==
  IF outs = <<>> THEN <<>>
  ELSE [j \in 1..Len(Rows(Head(outs).events)) |-> Rows(Head(outs).events)[j].row]
         \o ConcatRows(Tail(outs))

\* C5: in the repack tool the rows of the outputs of one input, read in
\* suffix order, are at every moment the first rows of the input, unchanged
\* in every column, and all N of them once Rewrite has returned.
C5_RepackRoundTrip ==
  prog = "repack" =>
    \A k \in DOMAIN rewrites :
      LET d    == rewrites[k].src
          rows == ConcatRows(OutsOf(d))
      IN  /\ Len(rows) <= dir[d].n
          /\ \A j \in 1..Len(rows) : rows[j] = InputRow(dir[d], j - 1)
          /\ rewrites[k].done => Len(rows) = dir[d].n

\* An input of 7 rows, whose rowids do not start at 0 or whose values are
\* not quantized, has been repacked into three files.
C5_Witness ==
  /\ prog = "repack" /\ ceiling = 3
  /\ \E k \in DOMAIN rewrites :
       LET d == rewrites[k].src
       IN  /\ rewrites[k].done /\ dir[d].n = 7 /\ Len(OutsOf(d)) = 3
           /\ \E j \in 0..6 : Quantize(InputRow(dir[d], j).v02) # InputRow(dir[d], j).v02
  /\ \E k \in DOMAIN rewrites :
       rewrites[k].done /\ dir[rewrites[k].src].row0 > 0 /\ dir[rewrites[k].src].n > 0

\* C6: in the split converter the record at source index j is written with
\* rowid j and the timestep of its file, whichever split file it lands in;
\* the first rowid of a continuation file is the last rowid of the previous
\* split file plus 1.
C6_CarryOver ==
  prog = "v2b" =>
    /\ \A c \in DOMAIN calls :
         calls[c].op = "Append" =>
           /\ calls[c].row.rowid = calls[c].idx
           /\ calls[c].row.timestep = dir[calls[c].src].ts
    /\ \A k \in DOMAIN rewrites :
         LET outs == OutsOf(rewrites[k].src)
         IN  \A j \in 2..Len(outs) :
               LET prev == Rows(outs[j - 1].events)
                   cont == Rows(outs[j].events)
               IN  cont # <<>> =>
                     /\ cont[1].row.rowid = prev[Len(prev)].row.rowid + 1
                     /\ cont[1].row.timestep = prev[Len(prev)].row.timestep

\* A third split file begins with a rowid that is twice the ceiling.
C6_Witness ==
  /\ prog = "v2b" /\ ceiling >= 2
  /\ \E k \in DOMAIN rewrites :
       LET outs == OutsOf(rewrites[k].src)
       IN  /\ Len(outs) >= 3
           /\ Rows(outs[3].events) # <<>>
           /\ Rows(outs[3].events)[1].row.rowid = 2 * ceiling

\* C7: in the single-output program the writer never sends an end of row
\* group to the sink when no row has been sent since the previous end of row
\* group or since the sink was opened.
C7_NoDegenerateRowGroup ==
  prog = "v2a" =>
    \A o \in DOMAIN sink :
      \A k \in DOMAIN sink[o].events :
        sink[o].events[k].op = "EndRowGroup" =>
          k > 1 /\ sink[o].events[k - 1].op = "EndRow"

LastOp(cs) == IF cs = <<>> THEN "none" ELSE cs[Len(cs)].op

C8_Step ==
  prog = "v2a" =>
    IF Len(calls') = Len(calls) + 1
      THEN LET c == calls'[Len(calls')]
           IN  /\ c.op = "FlushRowGroup" =>
                    /\ sink' = sink
                    /\ LastOp(calls) = "FlushRowGroup" => writer' = writer
               /\ c.op = "Append" =>
                    sink'[c.out].events =
                      sink[c.out].events
                        \o (IF LastOp(calls) = "FlushRowGroup"
                              THEN <<EndRowGroup>> ELSE <<>>)
                        \o <<EndRow(c.row)>>
               /\ c.op = "Finish" =>
                    /\ sink'[c.out].events = sink[c.out].events
                    /\ pc' = "Done"
      ELSE calls' = calls /\ sink' = sink

\* C8: in the single-output program a FlushRowGroup call leaves the sink as
\* it was; an end of row group reaches the sink only in the first Append
\* after a FlushRowGroup, immediately before that Append's row; Finish sends
\* nothing and ends the run normally; a FlushRowGroup directly after another
\* changes neither the writer nor the sink.
C8_FlushLeavesSink == [][C8_Step]_vars

\* A finished run whose last calls are Append, FlushRowGroup, Finish, with
\* two consecutive FlushRowGroup calls earlier and a boundary in the sink.
C8_Witness ==
  /\ prog = "v2a" /\ pc = "Done" /\ Len(calls) >= 4
  /\ calls[Len(calls)].op = "Finish"
  /\ calls[Len(calls) - 1].op = "FlushRowGroup"
  /\ calls[Len(calls) - 2].op = "Append"
  /\ \E j \in 1..(Len(calls) - 1) :
       calls[j].op = "FlushRowGroup" /\ calls[j + 1].op = "FlushRowGroup"
  /\ \E k \in DOMAIN sink[1].events : sink[1].events[k].op = "EndRowGroup"
  /\ sink[1].events[Len(sink[1].events)].op = "EndRow"

CallsOf(op, o) == {c \in DOMAIN calls : calls[c].op = op /\ calls[c].out = o}

\* C9: in the metadata-carrying converter ExtraMetadata runs exactly once
\* for each output file, and has returned before the first Append to that
\* file; for a source without a cycle_index array the run has ended (pc is
\* a fault) and the output holds no row.
C9_MetadataBeforeRows ==
  prog = "meta" =>
    /\ \A o \in DOMAIN sink : Cardinality(CallsOf("ExtraMetadata", o)) = 1
    /\ \A c \in DOMAIN calls :
         calls[c].op = "Append" =>
           \E m \in 1..(c - 1) :
             /\ calls[m].op = "ExtraMetadata"
             /\ calls[m].out = calls[c].out
             /\ calls[m].ok
    /\ \A o \in DOMAIN sink :
         dir[sink[o].src].cycle = <<>> =>
           /\ pc \in {"segv", "terminate", "exit_failure"}
           /\ o = Len(sink)
           /\ Rows(sink[o].events) = <<>>
           /\ CallsOf("Append", o) = {}

\* One output was written with rows, then a source without cycle_index was
\* met.
C9_Witness ==
  /\ prog = "meta" /\ pc = "segv" /\ Len(sink) >= 2
  /\ dir[sink[Len(sink)].src].cycle = <<>>
  /\ dir[sink[Len(sink)].src].n > 0
  /\ \E o \in 1..(Len(sink) - 1) :
       Rows(sink[o].events) # <<>> /\ ~sink[o].open

ExtentKey == <<"extent_0", "extent_1", "extent_2", "extent_3", "extent_4", "extent_5">>
OriginKey == <<"origin_0", "origin_1", "origin_2">>
SpacingKey == <<"spacing_0", "spacing_1", "spacing_2">>

\* C10: the metadata of every output whose source has extent, origin,
\* spacing and cycle_index has exactly the 13 keys, extent_i holding the
\* decimal string of extent[i], origin_i that of origin[i], spacing_i that
\* of spacing[i] and cycle_index that of the first cycle_index value; this
\* holds in every state, so no Append or Finish changes it.
C10_MetadataCompleteness ==
  prog = "meta" =>
    \A o \in DOMAIN sink :
      LET f == dir[sink[o].src]
          m == sink[o].kv
      IN  f.cycle # <<>> =>
            /\ DOMAIN m = {ExtentKey[i] : i \in 1..6} \cup {OriginKey[i] : i \in 1..3}
                            \cup {SpacingKey[i] : i \in 1..3} \cup {"cycle_index"}
            /\ \A i \in 1..6 : m[ExtentKey[i]] = IntToString(f.extent[i])
            /\ \A i \in 1..3 : m[OriginKey[i]] = DoubleToString(f.origin[i])
            /\ \A i \in 1..3 : m[SpacingKey[i]] = DoubleToString(f.spacing[i])
            /\ m["cycle_index"] = IntToString(f.cycle[1])

\* A finished output with rows, and a finished output whose source has
\* cycle_index 42 and origin (0, 1.5, -2).
C10_Witness ==
  /\ prog = "meta"
  /\ \E o \in DOMAIN sink : ~sink[o].open /\ Rows(sink[o].events) # <<>>
  /\ \E o \in DOMAIN sink :
       /\ ~sink[o].open
       /\ sink[o].kv # NoKV
       /\ sink[o].kv["cycle_index"] = <<"4", "2">>
       /\ sink[o].kv["origin_0"] = <<"0", ".", "0", "0", "0", "0", "0", "0">>
       /\ sink[o].kv["origin_1"] = <<"1", ".", "5", "0", "0", "0", "0", "0">>
       /\ sink[o].kv["origin_2"] = <<"-", "2", ".", "0", "0", "0", "0", "0", "0">>

Fatal == {"exit_failure", "terminate", "segv"}

OpenOutputs == {o \in DOMAIN sink : sink[o].open}

\* C11: in every program at most one output is open at any time, and it is
\* the one opened last: every earlier output was finished before the next
\* was opened; when the program completes normally no output is open; and
\* no Append is made on a writer after its Finish.
C11_SingleOwner ==
  /\ Cardinality(OpenOutputs) <= 1
  /\ \A o \in OpenOutputs : o = Len(sink)
  /\ writer.writer_ = "open" => writer.out \in OpenOutputs
  /\ pc = "Done" => OpenOutputs = {} /\ writer.writer_ = "nullptr"
  /\ \A i, j \in DOMAIN calls :
       (i < j /\ calls[i].op = "Finish" /\ calls[i].out = calls[j].out)
         => calls[j].op # "Append"

\* The third split file of a source is being written; the two before it
\* are closed and hold rows.
C11_Witness ==
  /\ prog = "v2b" /\ Len(sink) >= 3
  /\ sink[Len(sink)].open /\ Rows(sink[Len(sink)].events) # <<>>
  /\ \A o \in 1..(Len(sink) - 1) : ~sink[o].open /\ Rows(sink[o].events) # <<>>

C12_Step ==
  (Len(calls') = Len(calls) + 1 /\ calls'[Len(calls')].op = "Finish") =>
    IF writer.writer_ = "nullptr"
      THEN pc' \in Fatal
      ELSE writer'.writer_ = "nullptr" /\ ~sink'[writer.out].open

\* C12: the first Finish on a writer closes the sink and releases the
\* StreamWriter; a Finish on a writer that was already finished is rejected:
\* it ends the run in an error.
C12_DoubleCloseRejected == [][C12_Step]_vars

\* The arrays the Iterator of each program reads.
Required(p) ==
  IF p \in {"v2a", "v2b"} THEN {"v02", "v03"}
  ELSE IF p = "meta" THEN {"prs", "tev", "v02", "v03"}
  ELSE IF p = "vtu" THEN {"rho", "prs", "tev", "xdt", "ydt", "zdt", "snd", "grd",
                          "mat", "v02", "v03"}
  ELSE {}

\* The snapshot lacks something the program reads from it.
Lacking(p, f) ==
  \/ ~(Required(p) \subseteq f.arrays)
  \/ p = "meta" /\ f.cycle = <<>>

C13_Step == pc \notin Fatal

C13_State ==
  /\ pc = "exit_failure" => sink = <<>> /\ calls = <<>> /\ rewrites = <<>>
  /\ \A k \in DOMAIN rewrites :
       Lacking(prog, dir[rewrites[k].src]) =>
         /\ k = Len(rewrites)
         /\ ~rewrites[k].done
         /\ pc \in Fatal \cup {"rewrite"}
  /\ pc \in Fatal =>
       \A k \in DOMAIN rewrites : ~rewrites[k].done => k = Len(rewrites)

\* C13: after a fatal error (the directory cannot be opened, an output
\* cannot be created, a field or attribute is missing) the run takes no
\* further step: no later work item, no further row, no Done; a work item
\* whose source lacks a field or attribute is the last one started and never
\* completes; when the directory cannot be opened no sink was created.
C13_FailFast == []C13_State /\ [][C13_Step]_vars

\* The single-output run has stopped at a snapshot without v02 after rows of
\* an earlier timestep were written, with keys left unprocessed.
C13_Witness ==
  /\ prog = "v2a" /\ pc = "segv"
  /\ Rows(sink[1].events) # <<>>
  /\ Cardinality(DOMAIN work_items) > Len(rewrites)

\* C14: when a snapshot lacks an array the Iterator reads, the run ends in
\* the Iterator's constructor (or earlier): no Append is ever made for that
\* source and its outputs hold no row; every row that is appended carries
\* the values of its own record, never a substitute.
C14_MissingFieldFatal ==
  prog \in {"v2a", "v2b", "meta", "vtu"} =>
    /\ \A k \in DOMAIN rewrites :
         LET d == rewrites[k].src
         IN  ~(Required(prog) \subseteq dir[d].arrays) =>
               /\ AppendsFor(d) = {}
               /\ SumLen(OutsOf(d)) = 0
               /\ pc \in {"rewrite", "segv", "terminate"}
               /\ k = Len(rewrites)
    /\ \A c \in DOMAIN calls :
         calls[c].op = "Append" =>
           LET f == dir[calls[c].src]
               j == calls[c].idx
           IN  /\ Required(prog) \subseteq f.arrays
               /\ IF prog = "vtu"
                    THEN \A col \in 1..11 : calls[c].row[col] = CellValue(f, col, j)
                    ELSE /\ calls[c].row.v02 = Quantize(V02(f, j))
                         /\ calls[c].row.v03 = Quantize(V03(f, j))

\* The unstructured-grid converter has stopped at a snapshot that lacks
\* cell arrays, after an earlier snapshot was converted with rows.
C14_Witness ==
  /\ prog = "vtu" /\ pc = "segv" /\ Len(sink) >= 2
  /\ ~(Required(prog) \subseteq dir[sink[Len(sink)].src].arrays)
  /\ dir[sink[Len(sink)].src].n > 0
  /\ Rows(sink[1].events) # <<>>

C15_Step ==
  prog \in {"v2a", "v2b", "meta", "vtu"} =>
    \/ it' = it
    \/ /\ it'.src # it.src               \* a new Iterator and SeekToFirst
       /\ it'.i_ = 0
       /\ it'.n_ = dir[it'.src].n
    \/ /\ it'.src = it.src               \* Next
       /\ it'.n_ = it.n_
       /\ it'.i_ = it.i_ + 1
       /\ Len(calls') = Len(calls) + 1
       /\ calls'[Len(calls')].op = "Append"
       /\ calls'[Len(calls')].idx = it.i_

C15_State ==
  prog \in {"v2a", "v2b", "meta", "vtu"} =>
    /\ Valid(it) <=> (0 <= it.i_ /\ it.i_ < it.n_)
    /\ it.src # 0 => it.n_ = dir[it.src].n /\ it.i_ \in 0..it.n_
    /\ \A c \in DOMAIN calls :
         calls[c].op = "Append" =>
           0 <= calls[c].idx /\ calls[c].idx < dir[calls[c].src].n

\* C15: Valid() holds exactly when 0 <= i < N; a new cursor starts at 0; a
\* step that changes the cursor is Next, which adds 1 to i and leaves N as
\* it is, and comes with the Append of record i; the accessors are only
\* called (an Append is only made) for an index in 0..N-1, also when the
\* split loop is entered again with a partly consumed cursor.
C15_CursorBounds == []C15_State /\ [][C15_Step]_vars

\* The split loop has been entered again: a later split file is open and
\* empty while the cursor stands inside the snapshot.
C15_Witness ==
  /\ prog = "v2b" /\ pc = "loop" /\ fr.i >= 2 /\ fr.n = 0
  /\ 0 < it.i_ /\ it.i_ < it.n_

\* C16: in every program the sources are processed in ascending order of
\* their timestep key, equal keys in the order of enumeration.
C16_ProcessingOrder ==
  \A j, k \in DOMAIN rewrites :
    j < k =>
      \/ dir[rewrites[j].src].ts < dir[rewrites[k].src].ts
      \/ /\ dir[rewrites[j].src].ts = dir[rewrites[k].src].ts
         /\ rewrites[j].src < rewrites[k].src

\* C17: in the writer of every program that has opened an output, the
\* integer key columns of the schema have delta encoding and Snappy
\* compression, every float column has plain encoding, and dictionary
\* encoding is disabled for every float column.
C17_EncodingPolicy ==
  sink # <<>> =>
    \A k \in DOMAIN Schema(prog) :
      LET c     == Schema(prog)[k]
          props == WriterProperties(prog)
      IN  IF ColumnType(c) = "INT32"
            THEN /\ Encoding(props, c) = "DELTA_BINARY_PACKED"
                 /\ Compression(props, c) = "SNAPPY"
            ELSE /\ Encoding(props, c) = "PLAIN"
                 /\ ~DictionaryEnabled(props, c)

\* C18: every value v02, v03 a quantizing writer has appended is a fixed
\* point of the quantization: q(q(v)) = q(v) for the source value v.
C18_QuantizationIdempotent ==
  prog \in {"v2a", "v2b", "meta"} =>
    \A c \in DOMAIN calls :
      calls[c].op = "Append" =>
        /\ Quantize(calls[c].row.v02) = calls[c].row.v02
        /\ Quantize(calls[c].row.v03) = calls[c].row.v03

\* The positions of the rows in the events of the single output.
RowPositions == {k \in DOMAIN sink[1].events : sink[1].events[k].op = "EndRow"}

\* An end of row group lies between positions i and j.
Divided(i, j) ==
  \E m \in (i + 1)..(j - 1) : sink[1].events[m].op = "EndRowGroup"

\* C19: in the single-output converter two rows lie in the same row group
\* (no end of row group between them) exactly when they carry the same
\* timestep, and every appended row has as rowid the index of its record in
\* its source snapshot.
C19_RowGroupPerTimestep ==
  (prog = "v2a" /\ sink # <<>>) =>
    /\ \A i, j \in RowPositions :
         i < j =>
           (Divided(i, j) <=>
              sink[1].events[i].row.timestep # sink[1].events[j].row.timestep)
    /\ \A c \in DOMAIN calls :
         calls[c].op = "Append" =>
           /\ calls[c].row.rowid = calls[c].idx
           /\ calls[c].row.timestep = dir[calls[c].src].ts

\* A finished output where the last row of timestep 2 (rowid 6), an end of
\* row group and the first row of timestep 15 (rowid 0) follow one another.
C19_Witness ==
  /\ prog = "v2a" /\ pc = "Done"
  /\ \E k \in 1..(Len(sink[1].events) - 2) :
       /\ sink[1].events[k].op = "EndRow"
       /\ sink[1].events[k].row.timestep = 2
       /\ sink[1].events[k].row.rowid = 6
       /\ sink[1].events[k + 1].op = "EndRowGroup"
       /\ sink[1].events[k + 2].op = "EndRow"
       /\ sink[1].events[k + 2].row.timestep = 15
       /\ sink[1].events[k + 2].row.rowid = 0

C20_Step ==
  prog = "v2b" =>
    /\ it'.src = it.src =>
         /\ it'.i_ \in {it.i_, it.i_ + 1}
         /\ SumLen(sink') = SumLen(sink) + (it'.i_ - it.i_)
    /\ (Len(sink') # Len(sink) \/ OpenOutputs # {o \in DOMAIN sink' : sink'[o].open})
         => it' = it

C20_State ==
  prog = "v2b" =>
    \A k \in DOMAIN rewrites :
      LET d    == rewrites[k].src
          rows == ConcatRows(OutsOf(d))
      IN  /\ \A j \in 1..Len(rows) :
               rows[j] = [timestep |-> rewrites[k].timestep, rowid |-> j - 1,
                          v02 |-> Quantize(V02(dir[d], j - 1)),
                          v03 |-> Quantize(V03(dir[d], j - 1))]
          /\ rewrites[k].done => Len(rows) = dir[d].n

\* C20 (as amended): the k-th row appended for a source, counting through
\* its split files in suffix order, carries the quantized field values of
\* the source's k-th record; the cursor moves by one with every appended
\* row and does not move when a split file is closed or opened.
C20_OrderThroughSplits == []C20_State /\ [][C20_Step]_vars

\* C20 (as stated): the k-th row appended for a source carries the field
\* values of the source's k-th record.
C20_OrderThroughSplits_asStated ==
  prog = "v2b" =>
    \A k \in DOMAIN rewrites :
      LET d    == rewrites[k].src
          rows == ConcatRows(OutsOf(d))
      IN  \A j \in 1..Len(rows) :
            /\ rows[j].v02 = V02(dir[d], j - 1)
            /\ rows[j].v03 = V03(dir[d], j - 1)

\* A source of 7 records lies in three split files, and the second file
\* begins with the record that follows the last one of the first.
C20_Witness ==
  /\ prog = "v2b" /\ ceiling = 3
  /\ \E k \in DOMAIN rewrites :
       LET outs == OutsOf(rewrites[k].src)
       IN  /\ rewrites[k].done /\ dir[rewrites[k].src].n = 7 /\ Len(outs) = 3
           /\ Rows(outs[2].events)[1].row.v02
                = Quantize(V02(dir[rewrites[k].src], 3))
           /\ Rows(outs[2].events)[1].row.v02
                # Rows(outs[1].events)[3].row.v02

\* The inputs of the repack tool: the regular files of the directory, as
\* it was at opendir, whose name ends in ".parquet".
RepackInputs ==
  {d \in DOMAIN dir : /\ ~dir[d].created
                      /\ dir[d].d_type = "DT_REG"
                      /\ StringEndWith(dir[d].name, DotParquet)}

C21_State ==
  prog = "repack" =>
    /\ \A k \in DOMAIN rewrites : rewrites[k].src \in RepackInputs
    /\ \A j, k \in DOMAIN rewrites : j # k => rewrites[j].src # rewrites[k].src
    /\ \A d \in DOMAIN dir :
         dir[d].created => ~StringEndWith(dir[d].name, DotParquet)
    /\ \A o \in DOMAIN sink :
         \E d \in DOMAIN dir :
           dir[d].created /\ InDir \o <<"/">> \o dir[d].name = sink[o].name
    /\ pc = "Done" =>
         \A d \in RepackInputs :
           /\ \E k \in DOMAIN rewrites : rewrites[k].src = d /\ rewrites[k].done
           /\ SumLen(OutsOf(d)) = dir[d].n

C21_Ended == pc = "Done" \/ pc \in {"exit_failure", "terminate"}

\* C21: the outputs of the repack tool appear in the directory it reads,
\* under names that do not end in ".parquet"; no file the run created is
\* ever passed to Rewrite, no input is passed to it twice, at Done every
\* input was repacked once and completely, and every run ends: at Done,
\* unless opendir or the creation of an output failed.
C21_RepackTerminates == []C21_State /\ <>C21_Ended

\* A finished run in which readdir also returned files the run had created:
\* two inputs were repacked, one of them into three outputs.
C21_Witness ==
  /\ prog = "repack" /\ pc = "Done"
  /\ Len(rewrites) = 2
  /\ \E k \in DOMAIN rewrites : Len(OutsOf(rewrites[k].src)) = 3
  /\ entry > Cardinality({d \in DOMAIN dir : ~dir[d].created})
  /\ dir[entry].created

(***************************************************************************)
(* C22: the output of the single-output converter as a function of the     *)
(* listing, and its independence of the order of the listing.              *)
(***************************************************************************)
\* The entries of a listing D that ProcessDir puts into work_items.
Matches_v2a(f) == f.d_type = "DT_REG" /\ StringEndWith(f.name, DotVti)

KeyOf(f) == Atoi(Substr(f.name, Len(f.name) - SuffixLen - KeyWidth, KeyWidth))

PrefixOf(f) == Substr(f.name, 0, Len(f.name) - SuffixLen - KeyWidth - 1)

Matching(D) == {d \in DOMAIN D : Matches_v2a(D[d])}

\* The files whose rows reach the output: per key, the last one listed.
Winners(D) ==
  {D[d] : d \in {d \in Matching(D) :
                   \A e \in Matching(D) : KeyOf(D[e]) = KeyOf(D[d]) => e <= d}}

\* The events a set S of files with pairwise distinct keys leaves in the
\* output: ascending in the key, each file's rows in point order with rowid
\* from 0, a row-group boundary before the first row that follows an earlier
\* file; a file without v02 or v03 ends the run.
RECURSIVE CanonicalEvents(_, _)
CanonicalEvents(S, started) ==
  IF S = {} THEN <<>>
  ELSE LET f == CHOOSE g \in S : \A h \in S : KeyOf(g) <= KeyOf(h)
       IN  IF ~({"v02", "v03"} \subseteq f.arrays) THEN <<>>
           ELSE (IF started /\ f.n > 0 THEN <<EndRowGroup>> ELSE <<>>)
                  \o [j \in 1..f.n |->
                        EndRow([timestep |-> KeyOf(f), rowid |-> j - 1,
                                v02 |-> Quantize(V02(f, j - 1)),
                                v03 |-> Quantize(V03(f, j - 1))])]
                  \o CanonicalEvents(S \ {f}, TRUE)

\* The output a run over the listing D ends with: its name and its events.
OutputOf(D) ==
  [name   |-> LET d == CHOOSE d \in Matching(D) : \A e \in Matching(D) : d <= e
              IN  OutDir \o <<"/">> \o PrefixOf(D[d]) \o DotParquet,
   events |-> CanonicalEvents(Winners(D), FALSE)]

\* The listings that hold the same files as D, in every order.
Reorderings(D) == {[j \in DOMAIN D |-> D[p[j]]] : p \in Permutations(DOMAIN D)}

DistinctKeys(D) ==
  \A d, e \in Matching(D) : d # e => KeyOf(D[d]) # KeyOf(D[e])

SamePrefix(D) ==
  \A d, e \in Matching(D) : PrefixOf(D[d]) = PrefixOf(D[e])

IsPrefix(a, b) == Len(a) <= Len(b) /\ SubSeq(b, 1, Len(a)) = a

\* C22: in the single-output converter the output of a run is OutputOf of
\* its listing (the events written so far are a prefix of it, and all of it
\* once the run is done or has crashed on a file without the arrays); when
\* the matching files have pairwise distinct keys and the same name prefix,
\* OutputOf is the same for every reordering of the listing, so any two
\* enumeration orders give the same name, rows and row-group boundaries;
\* when two matching files share a key, some reordering gives another output.
C22_OrderIndependence ==
  (prog = "v2a" /\ sink # <<>>) =>
    LET out == OutputOf(dir)
    IN  /\ Len(sink) = 1
        /\ sink[1].name = out.name
        /\ IsPrefix(sink[1].events, out.events)
        /\ pc = "Done" => ~sink[1].open
        /\ pc \in {"Done", "segv"} =>
              /\ sink[1].events = out.events
              /\ (DistinctKeys(dir) /\ SamePrefix(dir)) =>
                    \A D \in Reorderings(dir) : OutputOf(D) = out
              /\ ~DistinctKeys(dir) =>
                    \E D \in Reorderings(dir) : OutputOf(D).events # out.events

\* A finished run over three matching files of one prefix with distinct
\* keys, listed in descending key order: rows of two files were written,
\* with a row-group boundary between them.
C22_Witness ==
  /\ prog = "v2a" /\ pc = "Done" /\ Len(dir) = 3
  /\ Matching(dir) = 1..3 /\ DistinctKeys(dir) /\ SamePrefix(dir)
  /\ KeyOf(dir[1]) > KeyOf(dir[2]) /\ KeyOf(dir[2]) > KeyOf(dir[3])
  /\ Len(Rows(sink[1].events)) = dir[1].n + dir[2].n + dir[3].n
  /\ \E k \in 2..(Len(sink[1].events) - 1) :
       /\ sink[1].events[k] = EndRowGroup
       /\ sink[1].events[k - 1].op = "EndRow"
       /\ sink[1].events[k + 1].op = "EndRow"

=============================================================================
